---- MODULE Spec2Model ----
(***************************************************************************)
(* Art Institute of Chicago MCP server (server.py): the tool dispatcher    *)
(* call_tool, the remote client make_api_request and the four renderers    *)
(* format_*_response, as a state machine over tool invocations.            *)
(*                                                                         *)
(* Python values are tagged records: [t |-> "none"], [t |-> "int", v],     *)
(* [t |-> "str", v] (an opaque string), [t |-> "text", v] (a string as the *)
(* sequence of its characters), [t |-> "bool", v], [t |-> "dict", v] (a    *)
(* function from keys to values) and [t |-> "list", v].  A text produced   *)
(* by the program is the sequence of its fragments: the concatenation of   *)
(* the fragments is the Python string.                                     *)
(***************************************************************************)
EXTENDS Integers, Sequences, FiniteSets, TLC

VARIABLES inv

vars == <<inv>>

(***************************************************************************)
(* Bounds of the model.                                                    *)
(***************************************************************************)
NumInv == 2        \* invocation slots of the transport loop
Over == 1          \* how far inputs go past a cap (list length, description)

(***************************************************************************)
(* Program constants.                                                      *)
(***************************************************************************)
BASE_URL == "https://api.artic.edu/api/v1"
DEFAULT_TIMEOUT == 30
MAX_RESULTS == 100
ListCap == 10           \* artworks[:10], agents[:10], exhibitions[:10]
GalleryCap == 20        \* galleries[:20]
DescCap == 300          \* description[:300]

Slots == 1..NumInv

(***************************************************************************)
(* Python values.                                                          *)
(***************************************************************************)
None == [t |-> "none"]
PyInt(n) == [t |-> "int", v |-> n]
Str(s) == [t |-> "str", v |-> s]
Text(s) == [t |-> "text", v |-> s]
Bool(b) == [t |-> "bool", v |-> b]
Dict(f) == [t |-> "dict", v |-> f]
List(s) == [t |-> "list", v |-> s]

EmptyDict == Dict([k \in {} |-> None])

\* d.get(k): the value of the key, None when the key is missing
Get(d, k) == IF k \in DOMAIN d.v THEN d.v[k] ELSE None

\* d.get(k, default)
GetDefault(d, k, default) == IF k \in DOMAIN d.v THEN d.v[k] ELSE default

\* k in d
HasKey(d, k) == k \in DOMAIN d.v

\* bool(x)
Truthy(x) ==
    CASE x.t = "none" -> FALSE
      [] x.t = "int" -> x.v # 0
      [] x.t = "str" -> x.v # ""
      [] x.t = "text" -> Len(x.v) > 0
      [] x.t = "bool" -> x.v
      [] x.t = "dict" -> DOMAIN x.v # {}
      [] x.t = "list" -> Len(x.v) > 0

(***************************************************************************)
(* str() and f-string interpolation: a value as text fragments.            *)
(***************************************************************************)
Digit(d) == CASE d = 0 -> "0" [] d = 1 -> "1" [] d = 2 -> "2" [] d = 3 -> "3"
              [] d = 4 -> "4" [] d = 5 -> "5" [] d = 6 -> "6" [] d = 7 -> "7"
              [] d = 8 -> "8" [] d = 9 -> "9"

RECURSIVE NatStr(_)
NatStr(n) == IF n < 10 THEN <<Digit(n)>> ELSE NatStr(n \div 10) \o <<Digit(n % 10)>>

\* str(n) of an integer, one fragment per character
IntStr(n) == IF n < 0 THEN <<"-">> \o NatStr(0 - n) ELSE NatStr(n)

Format(x) ==
    CASE x.t = "none" -> <<"None">>
      [] x.t = "int" -> IntStr(x.v)
      [] x.t = "str" -> <<x.v>>
      [] x.t = "text" -> x.v
      [] x.t = "bool" -> IF x.v THEN <<"True">> ELSE <<"False">>
      [] x.t = "dict" -> <<"{...}">>
      [] x.t = "list" -> <<"[...]">>

\* type(x).__name__
TypeName(x) ==
    CASE x.t = "none" -> "NoneType"
      [] x.t = "int" -> "int"
      [] x.t \in {"str", "text"} -> "str"
      [] x.t = "bool" -> "bool"
      [] x.t = "dict" -> "dict"
      [] x.t = "list" -> "list"

(***************************************************************************)
(* Results of evaluating Python code that may raise.                       *)
(***************************************************************************)
Ok(x) == [raised |-> FALSE, value |-> x]
Raise(type, msg) == [raised |-> TRUE, type |-> type, msg |-> msg]


\* xs[:n]
SliceTo(s, n) ==
    IF n >= 0
    THEN SubSeq(s, 1, IF n < Len(s) THEN n ELSE Len(s))
    ELSE SubSeq(s, 1, IF Len(s) + n > 0 THEN Len(s) + n ELSE 0)

RECURSIVE Join(_, _)
\* sep.join(parts)
Join(sep, parts) ==
    IF Len(parts) = 0 THEN <<>>
    ELSE IF Len(parts) = 1 THEN parts[1]
    ELSE parts[1] \o <<sep>> \o Join(sep, Tail(parts))

(***************************************************************************)
(* make_api_request: the request handed to the HTTP client, and the        *)
(* classification of what the client call does.                            *)
(***************************************************************************)
RECURSIVE LStripSlash(_)
\* endpoint.lstrip('/')
LStripSlash(e) == IF Len(e) > 0 /\ e[1] = "/" THEN LStripSlash(Tail(e)) ELSE e

\* {k: v for k, v in params.items() if v is not None}
FilterNone(params) ==
    Dict([k \in {x \in DOMAIN params.v : params.v[x].t # "none"} |-> params.v[k]])

\* RequestParams without the filter of None values
RequestParamsUnfiltered(params) == params

\* the params given to client.get: filtered only when params is truthy
RequestParams(params) == IF Truthy(params) THEN FilterNone(params) ELSE params

\* client.get(url, params=params) under AsyncClient(timeout=DEFAULT_TIMEOUT)
BuildRequest(endpoint, params) ==
    [method |-> "GET",
     url |-> <<BASE_URL, "/">> \o LStripSlash(endpoint),
     params |-> RequestParams(params),
     timeout |-> DEFAULT_TIMEOUT]

\* httpx.RequestError and its subclasses (TransportError, TimeoutException, ...)
RequestErrorClasses ==
    {"ConnectError", "ConnectTimeout", "ReadTimeout", "RemoteProtocolError"}

\* MakeApiRequestResult without the handler of httpx.RequestError
MakeApiRequestResultNoRequestError(outcome) ==
    IF ~outcome.raised THEN Ok(outcome.value)
    ELSE IF outcome.type = "HTTPStatusError"
    THEN Raise("AICAPIError",
               <<"API request failed: ">> \o IntStr(outcome.status_code)
                   \o <<" - ">> \o outcome.text)
    ELSE Raise("AICAPIError", <<"Unexpected error: ">> \o outcome.msg)

\* what the body of the try block does: returns the decoded JSON or raises
\* an exception of the HTTP client or of the JSON decoder;
\* the except chain turns every exception into an AICAPIError
MakeApiRequestResult(outcome) ==
    IF ~outcome.raised THEN Ok(outcome.value)
    ELSE IF outcome.type = "HTTPStatusError"
    THEN Raise("AICAPIError",
               <<"API request failed: ">> \o IntStr(outcome.status_code)
                   \o <<" - ">> \o outcome.text)
    ELSE IF outcome.type \in RequestErrorClasses
    THEN Raise("AICAPIError", <<"Failed to connect to API: ">> \o outcome.msg)
    ELSE Raise("AICAPIError", <<"Unexpected error: ">> \o outcome.msg)

(***************************************************************************)
(* The renderers.                                                          *)
(***************************************************************************)
\* "No description available", one fragment per character
NoDescription ==
    <<"N", "o", " ", "d", "e", "s", "c", "r", "i", "p", "t", "i", "o", "n", " ",
      "a", "v", "a", "i", "l", "a", "b", "l", "e">>

\* x.get(...) on a record of the data list: raises on a record that is no dict
NotADict(x) ==
    Raise("AttributeError", <<"'", TypeName(x), "' object has no attribute 'get'">>)

\* DescriptionShown with the marker from 300 characters on
DescriptionShownFromCap(description) ==
    IF description.t # "text"
    THEN Raise("TypeError",
               <<"'", TypeName(description), "' object is not subscriptable">>)
    ELSE Ok(SliceTo(description.v, DescCap)
            \o (IF Len(description.v) >= DescCap THEN <<".", ".", ".">> ELSE <<>>))

\* f"{description[:300]}{'...' if len(description) > 300 else ''}"
DescriptionShown(description) ==
    IF description.t # "text"
    THEN Raise("TypeError",
               <<"'", TypeName(description), "' object is not subscriptable">>)
    ELSE Ok(SliceTo(description.v, DescCap)
            \o (IF Len(description.v) > DescCap THEN <<".", ".", ".">> ELSE <<>>))

\* the result of a for loop over blocks: the first exception raised, if any
Collect(rs) ==
    IF \E i \in 1..Len(rs) : rs[i].raised
    THEN rs[CHOOSE i \in 1..Len(rs) :
                rs[i].raised /\ \A j \in 1..(i - 1) : ~rs[j].raised]
    ELSE Ok([i \in 1..Len(rs) |-> rs[i].value])

\* data["data"] if isinstance(data["data"], list) else [data["data"]]
AsList(d) == IF d.t = "list" THEN d.v ELSE <<d>>

\* "data" not in data, on the decoded body
NotIterable(data) ==
    Raise("TypeError", <<"argument of type '", TypeName(data), "' is not iterable">>)

\* pagination.get("total", 0) etc. on data["pagination"]
PaginationGet(pagination, k, default) ==
    IF pagination.t # "dict" THEN NotADict(pagination)
    ELSE Ok(GetDefault(pagination, k, default))

\* one artwork of format_artwork_response
ArtworkBlock(artwork) ==
    IF artwork.t # "dict" THEN NotADict(artwork)
    ELSE
    LET title == GetDefault(artwork, "title", Str("Untitled"))
        artist == GetDefault(artwork, "artist_display", Str("Unknown artist"))
        date == GetDefault(artwork, "date_display", Str("Unknown date"))
        medium == GetDefault(artwork, "medium_display", Str("Unknown medium"))
        place == GetDefault(artwork, "place_of_origin", Str("Unknown origin"))
        description ==
            IF Truthy(Get(artwork, "short_description"))
            THEN Get(artwork, "short_description")
            ELSE GetDefault(artwork, "description", Text(NoDescription))
        artwork_id == GetDefault(artwork, "id", Str("Unknown"))
        shown == DescriptionShown(description)
    IN  IF shown.raised THEN shown
        ELSE Ok(<<"\n**">> \o Format(title) \o <<"**\nID: ">> \o Format(artwork_id)
                \o <<"\nArtist: ">> \o Format(artist)
                \o <<"\nDate: ">> \o Format(date)
                \o <<"\nMedium: ">> \o Format(medium)
                \o <<"\nOrigin: ">> \o Format(place)
                \o <<"\nDescription: ">> \o shown.value \o <<"\n">>
                \o (IF Truthy(Get(artwork, "image_id"))
                    THEN <<"Image: ", "https://www.artic.edu/iiif/2/">>
                         \o Format(artwork.v["image_id"])
                         \o <<"/full/843,/0/default.jpg", "\n">>
                    ELSE <<>>)
                \o (IF Truthy(Get(artwork, "id"))
                    THEN <<"View online: ", "https://www.artic.edu/artworks/">>
                         \o Format(artwork.v["id"]) \o <<"\n">>
                    ELSE <<>>))

format_artwork_response(data) ==
    IF data.t # "dict" THEN NotIterable(data)
    ELSE IF ~HasKey(data, "data") THEN Ok(<<"No artwork data found.">>)
    ELSE
    LET artworks == AsList(data.v["data"])
        result == Collect([i \in 1..Len(SliceTo(artworks, ListCap)) |->
                              ArtworkBlock(artworks[i])])
        pagination == data.v["pagination"]
        total == PaginationGet(pagination, "total", PyInt(0))
        current_page == PaginationGet(pagination, "current_page", PyInt(1))
        total_pages == PaginationGet(pagination, "total_pages", PyInt(1))
    IN  IF Len(artworks) = 0 THEN Ok(<<"No artworks found.">>)
        ELSE IF result.raised THEN result
        ELSE IF ~HasKey(data, "pagination") THEN Ok(Join("\n---\n", result.value))
        ELSE IF total.raised THEN total
        ELSE Ok(Join("\n---\n",
                     result.value \o
                     << <<"\nShowing ">> \o IntStr(Len(artworks)) \o <<" of ">>
                        \o Format(total.value) \o <<" total results">>
                        \o <<" (Page ">> \o Format(current_page.value) \o <<"/">>
                        \o Format(total_pages.value) \o <<")">> >>))

\* f"\nShowing {len(xs)} of {total} total results"
ShowingLine(n, total) ==
    <<"\nShowing ">> \o IntStr(n) \o <<" of ">> \o Format(total)
        \o <<" total results">>

\* one agent of format_agent_response
AgentBlock(agent) ==
    IF agent.t # "dict" THEN NotADict(agent)
    ELSE
    LET title == GetDefault(agent, "title", Str("Unknown"))
        birth_date == GetDefault(agent, "birth_date", Str("Unknown"))
        death_date == GetDefault(agent, "death_date", Str("Unknown"))
        description == GetDefault(agent, "description", Text(NoDescription))
        agent_id == GetDefault(agent, "id", Str("Unknown"))
        shown == DescriptionShown(description)
    IN  IF shown.raised THEN shown
        ELSE Ok(<<"\n**">> \o Format(title) \o <<"**\nID: ">> \o Format(agent_id)
                \o <<"\nBirth: ">> \o Format(birth_date)
                \o <<"\nDeath: ">> \o Format(death_date)
                \o <<"\nDescription: ">> \o shown.value \o <<"\n">>)

\* format_agent_response without the test of an empty list
format_agent_responseNoEmptyTest(data) ==
    IF data.t # "dict" THEN NotIterable(data)
    ELSE IF ~HasKey(data, "data") THEN Ok(<<"No agent data found.">>)
    ELSE
    LET agents == AsList(data.v["data"])
        result == Collect([i \in 1..Len(SliceTo(agents, ListCap)) |->
                              AgentBlock(agents[i])])
        total == PaginationGet(data.v["pagination"], "total", PyInt(0))
    IN  IF result.raised THEN result
        ELSE IF ~HasKey(data, "pagination") THEN Ok(Join("\n---\n", result.value))
        ELSE IF total.raised THEN total
        ELSE Ok(Join("\n---\n",
                     result.value \o <<ShowingLine(Len(agents), total.value)>>))

format_agent_response(data) ==
    IF data.t # "dict" THEN NotIterable(data)
    ELSE IF ~HasKey(data, "data") THEN Ok(<<"No agent data found.">>)
    ELSE
    LET agents == AsList(data.v["data"])
        result == Collect([i \in 1..Len(SliceTo(agents, ListCap)) |->
                              AgentBlock(agents[i])])
        total == PaginationGet(data.v["pagination"], "total", PyInt(0))
    IN  IF Len(agents) = 0 THEN Ok(<<"No agents found.">>)
        ELSE IF result.raised THEN result
        ELSE IF ~HasKey(data, "pagination") THEN Ok(Join("\n---\n", result.value))
        ELSE IF total.raised THEN total
        ELSE Ok(Join("\n---\n",
                     result.value \o <<ShowingLine(Len(agents), total.value)>>))

\* one exhibition of format_exhibition_response
ExhibitionBlock(exhibition) ==
    IF exhibition.t # "dict" THEN NotADict(exhibition)
    ELSE
    LET title == GetDefault(exhibition, "title", Str("Untitled Exhibition"))
        description ==
            GetDefault(exhibition, "short_description", Text(NoDescription))
        start_date == GetDefault(exhibition, "aic_start_at", Str("Unknown"))
        end_date == GetDefault(exhibition, "aic_end_at", Str("Unknown"))
        status == GetDefault(exhibition, "status", Str("Unknown"))
        gallery == GetDefault(exhibition, "gallery_title", Str("Unknown location"))
        exhibition_id == GetDefault(exhibition, "id", Str("Unknown"))
        shown == DescriptionShown(description)
    IN  IF shown.raised THEN shown
        ELSE Ok(<<"\n**">> \o Format(title) \o <<"**\nID: ">>
                \o Format(exhibition_id)
                \o <<"\nStatus: ">> \o Format(status)
                \o <<"\nDates: ">> \o Format(start_date) \o <<" to ">>
                \o Format(end_date)
                \o <<"\nLocation: ">> \o Format(gallery)
                \o <<"\nDescription: ">> \o shown.value \o <<"\n">>
                \o (IF Truthy(Get(exhibition, "web_url"))
                    THEN <<"More info: ">> \o Format(exhibition.v["web_url"])
                         \o <<"\n">>
                    ELSE <<>>))

format_exhibition_response(data) ==
    IF data.t # "dict" THEN NotIterable(data)
    ELSE IF ~HasKey(data, "data") THEN Ok(<<"No exhibition data found.">>)
    ELSE
    LET exhibitions == AsList(data.v["data"])
        result == Collect([i \in 1..Len(SliceTo(exhibitions, ListCap)) |->
                              ExhibitionBlock(exhibitions[i])])
        total == PaginationGet(data.v["pagination"], "total", PyInt(0))
    IN  IF Len(exhibitions) = 0 THEN Ok(<<"No exhibitions found.">>)
        ELSE IF result.raised THEN result
        ELSE IF ~HasKey(data, "pagination") THEN Ok(Join("\n---\n", result.value))
        ELSE IF total.raised THEN total
        ELSE Ok(Join("\n---\n",
                     result.value
                         \o <<ShowingLine(Len(exhibitions), total.value)>>))

\* one gallery of format_gallery_response
GalleryBlock(gallery) ==
    IF gallery.t # "dict" THEN NotADict(gallery)
    ELSE
    LET title == GetDefault(gallery, "title", Str("Unknown Gallery"))
        number == GetDefault(gallery, "number", Str("Unknown"))
        floor == GetDefault(gallery, "floor", Str("Unknown"))
        is_closed == GetDefault(gallery, "is_closed", Bool(FALSE))
        gallery_id == GetDefault(gallery, "id", Str("Unknown"))
        status == IF Truthy(is_closed) THEN "Closed" ELSE "Open"
    IN  Ok(<<"\n**">> \o Format(title) \o <<"**\nID: ">> \o Format(gallery_id)
           \o <<"\nGallery Number: ">> \o Format(number)
           \o <<"\nFloor: ">> \o Format(floor)
           \o <<"\nStatus: ", status, "\n">>)

format_gallery_response(data) ==
    IF data.t # "dict" THEN NotIterable(data)
    ELSE IF ~HasKey(data, "data") THEN Ok(<<"No gallery data found.">>)
    ELSE
    LET galleries == AsList(data.v["data"])
        result == Collect([i \in 1..Len(SliceTo(galleries, GalleryCap)) |->
                              GalleryBlock(galleries[i])])
        total == PaginationGet(data.v["pagination"], "total", PyInt(0))
    IN  IF Len(galleries) = 0 THEN Ok(<<"No galleries found.">>)
        ELSE IF result.raised THEN result
        ELSE IF ~HasKey(data, "pagination") THEN Ok(Join("\n---\n", result.value))
        ELSE IF total.raised THEN total
        ELSE Ok(Join("\n---\n",
                     result.value \o <<ShowingLine(Len(galleries), total.value)>>))

\* one item of the search_all branch of call_tool
MixedLine(item) ==
    IF item.t # "dict" THEN NotADict(item)
    ELSE
    LET api_model == GetDefault(item, "api_model", Str("unknown"))
        title == GetDefault(item, "title", Str("Untitled"))
        item_id == GetDefault(item, "id", Str("Unknown"))
    IN  Ok(<<"**">> \o Format(title) \o <<"** (Type: ">> \o Format(api_model)
           \o <<", ID: ">> \o Format(item_id) \o <<")">>)

\* the rendering of the search_all branch of call_tool, limit an integer
FormatMixed(data, limit) ==
    IF data.t # "dict" THEN NotIterable(data)
    ELSE IF ~HasKey(data, "data") \/ ~Truthy(data.v["data"])
    THEN Ok(<<"No results found.">>)
    ELSE IF data.v["data"].t # "list"
    THEN Raise("TypeError", <<"unhashable type: 'slice'">>)
    ELSE
    LET items == SliceTo(data.v["data"].v, limit)
        results == Collect([i \in 1..Len(items) |-> MixedLine(items[i])])
        total == PaginationGet(data.v["pagination"], "total", PyInt(0))
    IN  IF results.raised THEN results
        ELSE IF ~HasKey(data, "pagination") THEN Ok(Join("\n", results.value))
        ELSE IF total.raised THEN total
        ELSE Ok(Join("\n", results.value)
                \o <<"\n\nShowing ">> \o IntStr(Len(results.value)) \o <<" of ">>
                \o Format(total.value) \o <<" total results">>)

(***************************************************************************)
(* call_tool.                                                              *)
(***************************************************************************)
CatalogTools ==
    {"search_artworks", "get_artwork", "search_agents", "get_agent",
     "search_exhibitions", "get_exhibition", "list_galleries", "get_gallery",
     "search_all"}

\* [TextContent(type="text", text=text)]
TextReply(text) == <<[type |-> "text", text |-> text]>>

\* min(arguments.get("limit", default), MAX_RESULTS)
ClampLimit(arguments, default) ==
    LET given == GetDefault(arguments, "limit", PyInt(default))
    IN  IF given.t = "int"
        THEN Ok(IF MAX_RESULTS < given.v THEN MAX_RESULTS ELSE given.v)
        ELSE Raise("TypeError",
                   <<"'<' not supported between instances of 'int' and '",
                     TypeName(given), "'">>)

\* a branch of call_tool up to its await or its return: Await is the call
\* of make_api_request(endpoint, params) with the local variable limit,
\* Return the text of a reply made without a request
\* Await with the id left out of the path
AwaitPathWithoutId(endpoint, params, limit) ==
    Ok([kind |-> "await", endpoint |-> <<endpoint[1]>>, params |-> params,
        limit |-> limit])

Await(endpoint, params, limit) ==
    Ok([kind |-> "await", endpoint |-> endpoint, params |-> params,
        limit |-> limit])

Return(text) == Ok([kind |-> "return", text |-> text])

\* the nine branches of the if statement of call_tool
CatalogBranch(name, arguments) ==
    IF arguments.t # "dict"
    THEN Raise("AttributeError",
               <<"'", TypeName(arguments), "' object has no attribute 'get'">>)
    ELSE
    LET limit10 == ClampLimit(arguments, 10)
        limit20 == ClampLimit(arguments, 20)
        page == GetDefault(arguments, "page", PyInt(1))
        fields == Get(arguments, "fields")
        query == Get(arguments, "query")
        Search(endpoint) ==
            IF limit10.raised THEN limit10
            ELSE Await(<<endpoint>>,
                       Dict([q |-> query, limit |-> PyInt(limit10.value),
                             page |-> page]),
                       limit10.value)
        ById(prefix, key) ==
            Await(<<prefix>> \o Format(Get(arguments, key)), None, 0)
    IN  CASE name = "search_artworks" ->
                IF limit10.raised THEN limit10
                ELSE Await(<<"artworks/search">>,
                           Dict([q |-> query, limit |-> PyInt(limit10.value),
                                 page |-> page, fields |-> fields]),
                           limit10.value)
          [] name = "get_artwork" ->
                Await(<<"artworks/">> \o Format(Get(arguments, "artwork_id")),
                      IF Truthy(fields) THEN Dict([fields |-> fields]) ELSE None,
                      0)
          [] name = "search_agents" -> Search("agents/search")
          [] name = "get_agent" -> ById("agents/", "agent_id")
          [] name = "search_exhibitions" -> Search("exhibitions/search")
          [] name = "get_exhibition" -> ById("exhibitions/", "exhibition_id")
          [] name = "list_galleries" ->
                IF limit20.raised THEN limit20
                ELSE Await(<<"galleries">>,
                           Dict([limit |-> PyInt(limit20.value), page |-> page]),
                           limit20.value)
          [] name = "get_gallery" -> ById("galleries/", "gallery_id")
          [] name = "search_all" ->
                IF limit10.raised THEN limit10
                ELSE Await(<<"search">>,
                           Dict([q |-> query, limit |-> PyInt(limit10.value)]),
                           limit10.value)

\* PrepareCall without the else branch: an unknown name takes the last branch
PrepareCallNoElse(name, arguments) ==
    CatalogBranch(IF name \in CatalogTools THEN name ELSE "search_all",
                  arguments)

\* call_tool up to its await or its return
PrepareCall(name, arguments) ==
    IF name \notin CatalogTools THEN Return(<<"Unknown tool: ", name>>)
    ELSE CatalogBranch(name, arguments)

\* the part of a branch of call_tool after its await: the renderer of the tool
RenderFor(name, data, limit) ==
    CASE name \in {"search_artworks", "get_artwork"} ->
            format_artwork_response(data)
      [] name \in {"search_agents", "get_agent"} -> format_agent_response(data)
      [] name \in {"search_exhibitions", "get_exhibition"} ->
            format_exhibition_response(data)
      [] name \in {"list_galleries", "get_gallery"} ->
            format_gallery_response(data)
      [] name = "search_all" -> FormatMixed(data, limit)

\* the classes the handlers of call_tool catch: Exception and its subclasses
ExceptionClasses ==
    {"AICAPIError", "AttributeError", "TypeError", "KeyError", "ValueError"}

\* CallToolResult without the handler of Exception
CallToolResultNoCatchAll(r) ==
    IF ~r.raised THEN Ok(TextReply(r.value))
    ELSE IF r.type = "AICAPIError" THEN Ok(TextReply(<<"Error: ">> \o r.msg))
    ELSE r

\* the try statement of call_tool around a branch whose result is r:
\* what call_tool returns, or the exception it lets through
CallToolResult(r) ==
    IF ~r.raised THEN Ok(TextReply(r.value))
    ELSE IF r.type = "AICAPIError" THEN Ok(TextReply(<<"Error: ">> \o r.msg))
    ELSE IF r.type \in ExceptionClasses
    THEN Ok(TextReply(<<"Unexpected error: ">> \o r.msg))
    ELSE r

(***************************************************************************)
(* Inputs: the invocations the transport loop delivers and the things the  *)
(* remote service does.                                                    *)
(***************************************************************************)
\* marks a key left out of a mapping
Missing == [t |-> "missing"]

\* the dict holding the keys of f whose value is not Missing
MkDict(f) == Dict([k \in {x \in DOMAIN f : f[x].t # "missing"} |-> f[k]])

ToolNames == CatalogTools \cup {"delete_artwork"}

LimitInts ==
    ((0 - Over)..3) \cup {ListCap, GalleryCap}
        \cup (MAX_RESULTS..(MAX_RESULTS + Over)) \cup {500}

LimitValues == {Missing, None, Str("ten")} \cup {PyInt(n) : n \in LimitInts}
QueryValues == {Missing, Str("monet")}
PageValues == {Missing, PyInt(2)}
FieldsValues == {Missing, Str("id,title")}
IdValues == {Missing, PyInt(27992)}

\* the arguments values delivered with a tool name
ArgumentsOf(name) ==
    {None} \cup
    CASE name = "search_artworks" ->
            {MkDict([query |-> q, limit |-> l, page |-> p, fields |-> f]) :
                q \in QueryValues, l \in LimitValues, p \in PageValues,
                f \in FieldsValues}
      [] name = "get_artwork" ->
            {MkDict([artwork_id |-> a, fields |-> f]) :
                a \in IdValues, f \in FieldsValues \cup {Str("")}}
      [] name \in {"search_agents", "search_exhibitions"} ->
            {MkDict([query |-> q, limit |-> l, page |-> p]) :
                q \in QueryValues, l \in LimitValues, p \in PageValues}
      [] name = "get_agent" -> {MkDict([agent_id |-> a]) : a \in IdValues}
      [] name = "get_exhibition" ->
            {MkDict([exhibition_id |-> a]) : a \in IdValues}
      [] name = "list_galleries" ->
            {MkDict([limit |-> l, page |-> p]) :
                l \in LimitValues, p \in PageValues}
      [] name = "get_gallery" -> {MkDict([gallery_id |-> a]) : a \in IdValues}
      [] name = "search_all" ->
            {MkDict([query |-> q, limit |-> l]) :
                q \in QueryValues, l \in LimitValues}
      [] OTHER -> {EmptyDict}

\* a string of n characters
Chars(n) == [i \in 1..n |-> <<"a", "b", "c">>[(i % 3) + 1]]

DescLens == {0, 2} \cup ((DescCap - 1)..(DescCap + Over))
DescValues == {Missing, None} \cup {Text(Chars(n)) : n \in DescLens}

\* a record of the remote service
Record(id, short_description, description) ==
    MkDict([id |-> PyInt(id), title |-> Str("Water Lilies"),
            api_model |-> Str("artworks"), image_id |-> Str("abc123"),
            web_url |-> Str("https://www.artic.edu/exhibitions/1"),
            is_closed |-> Bool(id % 2 = 0),
            short_description |-> short_description,
            description |-> description])

SingleRecords ==
    {EmptyDict, None}
        \cup {Record(42, s, d) : s \in {Missing, None, Text(<<>>)}, d \in DescValues}
        \cup {Record(42, s, Missing) : s \in DescValues}

ListLens ==
    (0..2) \cup (ListCap..(ListCap + Over)) \cup (GalleryCap..(GalleryCap + Over))

\* the data lists: records 1..n, the first with the given descriptions
DataLists ==
    {[i \in 1..n |-> Record(i, Missing, Text(Chars(2)))] : n \in ListLens}
        \cup {<<Record(1, Missing, Text(Chars(DescCap + 1))),
                Record(2, Text(Chars(DescCap)), None)>>,
              <<Record(1, Missing, Text(Chars(2))), Record(2, None, None)>>}

Paginations ==
    {Missing, EmptyDict, None,
     Dict([total |-> PyInt(37), limit |-> PyInt(10), current_page |-> PyInt(1),
           total_pages |-> PyInt(4)])}

\* the decoded JSON bodies of 2xx responses
Envelopes ==
    {None, EmptyDict}
        \cup {MkDict([data |-> List(l), pagination |-> p]) :
                l \in DataLists, p \in Paginations}
        \cup {MkDict([data |-> r, pagination |-> Missing]) : r \in SingleRecords}

StatusCodes == {404, 500}
StatusBodies == {<<"not found">>, <<>>}

(***************************************************************************)
(* The state: one record per invocation slot.                              *)
(*   pc         "idle", "awaiting" (suspended in client.get), "returned"   *)
(*              (call_tool returned reply) or "failed" (call_tool let the  *)
(*              exception `failure` through)                               *)
(*   requests   the requests handed to the HTTP client by the invocation   *)
(*   client     the AsyncClient of make_api_request: "none", "open",       *)
(*              "closed"                                                   *)
(*   outcome    what the try block of make_api_request did                 *)
(***************************************************************************)
NoOutcome == [raised |-> FALSE, value |-> Missing]

IdleSlot ==
    [pc |-> "idle", name |-> "", arguments |-> None, limit |-> 0,
     requests |-> <<>>, client |-> "none", outcome |-> NoOutcome,
     reply |-> <<>>, failure |-> ""]

\* call_tool ends: it returns its reply or lets an exception through
Finish(slot, r) ==
    LET res == CallToolResult(r)
    IN  IF res.raised
        THEN [slot EXCEPT !.pc = "failed", !.failure = res.type]
        ELSE [slot EXCEPT !.pc = "returned", !.reply = res.value]

\* call_tool up to its await, or to its end when it makes no request
StartCall(i, name, arguments) ==
    /\ inv[i].pc = "idle"
    /\ LET slot == [inv[i] EXCEPT !.name = name, !.arguments = arguments]
           p == PrepareCall(name, arguments)
       IN  inv' = [inv EXCEPT ![i] =
                IF p.raised THEN Finish(slot, p)
                ELSE IF p.value.kind = "return"
                THEN Finish(slot, Ok(p.value.text))
                ELSE [slot EXCEPT !.pc = "awaiting",
                                  !.limit = p.value.limit,
                                  !.client = "open",
                                  !.requests = Append(@,
                                      BuildRequest(p.value.endpoint,
                                                   p.value.params))]]

\* an invocation delivered by a client that awaits each reply before it sends
\* the next request
Call(i, name, arguments) ==
    /\ \A j \in Slots : inv[j].pc = "idle"
    /\ StartCall(i, name, arguments)

\* Complete with the local variable limit kept in a variable of the module,
\* which a later invocation overwrites
CompleteSharedLimit(i, outcome) ==
    /\ inv[i].pc = "awaiting"
    /\ LET slot == [inv[i] EXCEPT !.client = "closed", !.outcome = outcome]
           later == {j \in Slots \ {i} : inv[j].pc # "idle"}
           limit == IF later = {} THEN slot.limit
                    ELSE inv[CHOOSE j \in later : TRUE].limit
           data == MakeApiRequestResult(outcome)
       IN  inv' = [inv EXCEPT ![i] =
                IF data.raised THEN Finish(slot, data)
                ELSE Finish(slot, RenderFor(slot.name, data.value, limit))]

\* Complete with a client that is closed only when client.get returns
CompleteClientLeftOpen(i, outcome) ==
    /\ inv[i].pc = "awaiting"
    /\ LET slot == [inv[i] EXCEPT
                       !.client = IF outcome.raised THEN "open" ELSE "closed",
                       !.outcome = outcome]
           data == MakeApiRequestResult(outcome)
       IN  inv' = [inv EXCEPT ![i] =
                IF data.raised THEN Finish(slot, data)
                ELSE Finish(slot, RenderFor(slot.name, data.value, slot.limit))]

\* Complete with one retry of a request that failed in transport
CompleteWithRetry(i, outcome) ==
    /\ inv[i].pc = "awaiting"
    /\ LET slot == [inv[i] EXCEPT !.client = "closed", !.outcome = outcome]
           data == MakeApiRequestResult(outcome)
       IN  inv' = [inv EXCEPT ![i] =
                IF /\ outcome.raised
                   /\ outcome.type \in RequestErrorClasses
                   /\ Len(inv[i].requests) < 2
                THEN [inv[i] EXCEPT !.requests = Append(@, @[1])]
                ELSE IF data.raised THEN Finish(slot, data)
                ELSE Finish(slot, RenderFor(slot.name, data.value, slot.limit))]

\* the rest of make_api_request and of call_tool once client.get has ended
\* with outcome: the client is closed, the outcome classified and rendered
Complete(i, outcome) ==
    /\ inv[i].pc = "awaiting"
    /\ LET slot == [inv[i] EXCEPT !.client = "closed", !.outcome = outcome]
           data == MakeApiRequestResult(outcome)
       IN  inv' = [inv EXCEPT ![i] =
                IF data.raised THEN Finish(slot, data)
                ELSE Finish(slot, RenderFor(slot.name, data.value, slot.limit))]

Invoke == \E i \in Slots, name \in ToolNames :
              \E arguments \in ArgumentsOf(name) : Call(i, name, arguments)

\* a 2xx response whose body decodes
RespondOk == \E i \in Slots, e \in Envelopes : Complete(i, Ok(e))

\* a 2xx response whose body is no JSON: response.json() raises
RespondUndecodable ==
    \E i \in Slots :
        Complete(i, Raise("JSONDecodeError", <<"Expecting value: line 1 column 1 (char 0)">>))

\* a non-2xx response: raise_for_status() raises
RespondStatus ==
    \E i \in Slots, code \in StatusCodes, body \in StatusBodies :
        Complete(i, [raised |-> TRUE, type |-> "HTTPStatusError",
                     status_code |-> code, text |-> body])

\* no connection or a protocol error
TransportFailure ==
    \E i \in Slots :
        \/ Complete(i, Raise("ConnectError", <<"All connection attempts failed">>))
        \/ Complete(i, Raise("RemoteProtocolError", <<"Server disconnected">>))

\* DEFAULT_TIMEOUT passes without a response
TimeoutOf(i) == Complete(i, Raise("ReadTimeout", <<>>))

Timeout == \E i \in Slots : TimeoutOf(i)

\* the transport loop takes the reply; the slot serves the next invocation
Deliver ==
    \E i \in Slots :
        /\ inv[i].pc = "returned"
        /\ inv' = [inv EXCEPT ![i] = IdleSlot]

Init == inv = [i \in Slots |-> IdleSlot]

Next ==
    \/ Invoke
    \/ RespondOk
    \/ RespondUndecodable
    \/ RespondStatus
    \/ TransportFailure
    \/ Timeout
    \/ Deliver

Spec == Init /\ [][Next]_vars

(***************************************************************************)
(* The transport loop serving invocations in parallel: an invocation       *)
(* starts in any idle slot while others are suspended in client.get.  The  *)
(* inputs are a part of those of Spec.  A suspended client.get ends: when  *)
(* nothing else ends it, its timeout does.                                 *)
(***************************************************************************)
ConcurrentNames == {"search_all", "get_artwork", "delete_artwork"}

ConcurrentArgumentsOf(name) ==
    CASE name = "search_all" ->
            {None} \cup {MkDict([query |-> Str("monet"), limit |-> PyInt(n)]) :
                            n \in 1..2}
      [] name = "get_artwork" -> {MkDict([artwork_id |-> PyInt(27992)])}
      [] OTHER -> {EmptyDict}

ConcurrentEnvelopes ==
    {EmptyDict,
     MkDict([data |-> Record(42, Missing, None)]),
     MkDict([data |-> List([i \in 1..2 |-> Record(i, Missing, Text(Chars(2)))]),
             pagination |-> Dict([total |-> PyInt(37)])])}

InvokeConcurrent ==
    \E i \in Slots, name \in ConcurrentNames :
        \E arguments \in ConcurrentArgumentsOf(name) :
            StartCall(i, name, arguments)

RespondOkConcurrent ==
    \E i \in Slots, e \in ConcurrentEnvelopes : Complete(i, Ok(e))

NextConcurrent ==
    \/ InvokeConcurrent
    \/ RespondOkConcurrent
    \/ RespondUndecodable
    \/ RespondStatus
    \/ TransportFailure
    \/ Timeout
    \/ Deliver

ConcurrentSpec ==
    /\ Init
    /\ [][NextConcurrent]_vars
    /\ \A i \in Slots : WF_vars(TimeoutOf(i))

(***************************************************************************)
(* Reading a reply: the claims are stated on the text call_tool returned.  *)
(***************************************************************************)
Done(i) == inv[i].pc \in {"returned", "failed"}

\* the text of the reply of a returned invocation
ReplyText(i) == inv[i].reply[1].text

\* the first fragment of a text, "" for the empty text
FirstFragment(text) == IF Len(text) = 0 THEN "" ELSE text[1]

\* the invocation made its request, a 2xx response was decoded to a dict and
\* the renderer of the tool produced the reply
Rendered(i) ==
    /\ inv[i].pc = "returned"
    /\ inv[i].client = "closed"
    /\ ~inv[i].outcome.raised
    /\ inv[i].outcome.value.t = "dict"
    /\ FirstFragment(ReplyText(i)) # "Unexpected error: "

\* the positions of the fragments of a text that are in S
Positions(text, S) == {p \in 1..Len(text) : text[p] \in S}

\* the k-th of them
NthPosition(text, S, k) ==
    CHOOSE p \in Positions(text, S) :
        Cardinality({q \in Positions(text, S) : q <= p}) = k

\* the fragments after position p up to the next fragment in Stop
RunAfter(text, p, Stop) ==
    LET ends == {q \in (p + 1)..Len(text) : text[q] \in Stop}
        e == IF ends = {} THEN Len(text) + 1
             ELSE CHOOSE q \in ends : \A r \in ends : q <= r
    IN  SubSeq(text, p + 1, e - 1)

\* a record block starts with the bold title line
BlockStarts == {"\n**", "**"}
NumBlocks(text) == Cardinality(Positions(text, BlockStarts))

\* the request parameters of a request, as a set of keys
ParamKeys(request) ==
    IF request.params.t = "dict" THEN DOMAIN request.params.v ELSE {}

(***************************************************************************)
(* C1: call_tool returns a list of exactly one text segment for every tool *)
(* name, arguments value and outcome of the remote call, and never lets a  *)
(* failure through to its caller.                                          *)
(***************************************************************************)
C1_AlwaysOneTextSegment ==
    \A i \in Slots :
        /\ inv[i].pc # "failed"
        /\ inv[i].pc = "returned" =>
              /\ Len(inv[i].reply) = 1
              /\ inv[i].reply[1].type = "text"

\* a decoded 2xx response whose record broke the renderer, answered as text
C1_Witness ==
    \E i \in Slots :
        /\ inv[i].pc = "returned"
        /\ inv[i].client = "closed"
        /\ ~inv[i].outcome.raised
        /\ FirstFragment(ReplyText(i)) = "Unexpected error: "
        /\ Len(inv[i].reply) = 1

(***************************************************************************)
(* C2: the limit sent in the outbound parameter set lies in [1, 100] for   *)
(* every integer limit argument (violated: the code only caps at 100).     *)
(***************************************************************************)
C2_LimitInRange ==
    \A i \in Slots :
        \A r \in 1..Len(inv[i].requests) :
            "limit" \in ParamKeys(inv[i].requests[r]) =>
                /\ inv[i].requests[r].params.v["limit"].v >= 1
                /\ inv[i].requests[r].params.v["limit"].v <= MAX_RESULTS

(***************************************************************************)
(* C3: when a required parameter is missing from the arguments, call_tool  *)
(* makes no outbound request (violated: the request is made all the same). *)
(***************************************************************************)
RequiredKey(name) ==
    CASE name \in {"search_artworks", "search_agents", "search_exhibitions",
                   "search_all"} -> "query"
      [] name = "get_artwork" -> "artwork_id"
      [] name = "get_agent" -> "agent_id"
      [] name = "get_exhibition" -> "exhibition_id"
      [] name = "get_gallery" -> "gallery_id"

C3_NoRequestWhenRequiredMissing ==
    \A i \in Slots :
        (/\ inv[i].pc # "idle"
         /\ inv[i].name \in CatalogTools \ {"list_galleries"}
         /\ inv[i].arguments.t = "dict"
         /\ ~HasKey(inv[i].arguments, RequiredKey(inv[i].name)))
            => /\ inv[i].requests = <<>>
               /\ inv[i].pc = "returned"

(***************************************************************************)
(* C4: for every tool name outside the catalog, call_tool returns the      *)
(* message "Unknown tool: <name>" and makes no outbound request.           *)
(***************************************************************************)
C4_UnknownTool ==
    \A i \in Slots :
        (inv[i].pc # "idle" /\ inv[i].name \notin CatalogTools)
            => /\ inv[i].pc = "returned"
               /\ inv[i].reply = <<[type |-> "text",
                                    text |-> <<"Unknown tool: ", inv[i].name>>]>>
               /\ inv[i].requests = <<>>
               /\ inv[i].client = "none"

C4_Witness ==
    \E i \in Slots :
        /\ inv[i].pc = "returned"
        /\ inv[i].name = "delete_artwork"
        /\ inv[i].arguments = None
        /\ FirstFragment(ReplyText(i)) = "Unknown tool: "

(***************************************************************************)
(* C5: every invocation of a catalog tool issues exactly one outbound GET  *)
(* request (violated as stated: an invocation whose arguments cannot be    *)
(* read makes none).                                                       *)
(***************************************************************************)
C5_ExactlyOneRequest ==
    \A i \in Slots :
        (Done(i) /\ inv[i].name \in CatalogTools) => Len(inv[i].requests) = 1

\* the arguments the branch of the tool can read: a mapping whose limit,
\* where the tool takes one, is an integer or left out
LimitTools ==
    {"search_artworks", "search_agents", "search_exhibitions",
     "list_galleries", "search_all"}

ArgumentsReadable(name, arguments) ==
    /\ arguments.t = "dict"
    /\ (name \in LimitTools /\ HasKey(arguments, "limit"))
           => arguments.v["limit"].t = "int"

(***************************************************************************)
(* C5, amended: an invocation of a catalog tool never issues more than one *)
(* outbound request, always a GET; it issues exactly one when its          *)
(* arguments can be read, whether that request succeeds or fails, and      *)
(* none when reading them raises, which it answers "Unexpected error".     *)
(***************************************************************************)
C5_OneRequestWhenReadable ==
    \A i \in Slots :
        (inv[i].pc # "idle" /\ inv[i].name \in CatalogTools) =>
            /\ Len(inv[i].requests) <= 1
            /\ \A r \in 1..Len(inv[i].requests) :
                   inv[i].requests[r].method = "GET"
            /\ Len(inv[i].requests) = 1
                   <=> ArgumentsReadable(inv[i].name, inv[i].arguments)
            /\ Len(inv[i].requests) = 0 =>
                   /\ inv[i].pc = "returned"
                   /\ FirstFragment(ReplyText(i)) = "Unexpected error: "

\* a request that failed was not made again
C5_Witness ==
    \E i \in Slots :
        /\ inv[i].pc = "returned"
        /\ inv[i].name \in CatalogTools
        /\ inv[i].outcome.raised
        /\ inv[i].outcome.type = "ConnectError"
        /\ Len(inv[i].requests) = 1

(***************************************************************************)
(* C6: in every outbound request no key of the parameter set handed to the *)
(* HTTP client maps to None; a parameter with no value is left out.        *)
(***************************************************************************)
C6_NoNullParameter ==
    \A i \in Slots :
        \A r \in 1..Len(inv[i].requests) :
            \A k \in ParamKeys(inv[i].requests[r]) :
                inv[i].requests[r].params.v[k].t # "none"

\* search_artworks without query and fields: the request has neither key
C6_Witness ==
    \E i \in Slots :
        /\ inv[i].pc = "awaiting"
        /\ inv[i].name = "search_artworks"
        /\ ~HasKey(inv[i].arguments, "query")
        /\ ~HasKey(inv[i].arguments, "fields")
        /\ ParamKeys(inv[i].requests[1]) = {"limit", "page"}

(***************************************************************************)
(* C7: every failure of the outbound call is reported as one kind, in a    *)
(* reply that starts with "Error: ": a non-2xx response with its status    *)
(* code and body, a transport failure or timeout with the transport        *)
(* message, a decoding failure with the unexpected-error message.          *)
(***************************************************************************)
\* text has the fragments of part, in a row, from position p on
HasAt(text, p, part) ==
    /\ p + Len(part) - 1 <= Len(text)
    /\ \A k \in 1..Len(part) : text[p + k - 1] = part[k]

FailureKinds ==
    {"API request failed: ", "Failed to connect to API: ", "Unexpected error: "}

C7_FailureClassified ==
    \A i \in Slots :
        (inv[i].pc # "awaiting" /\ inv[i].outcome.raised) =>
            /\ inv[i].pc = "returned"
            /\ Len(ReplyText(i)) >= 2
            /\ ReplyText(i)[1] = "Error: "
            /\ Cardinality(Positions(ReplyText(i), FailureKinds)) = 1
            /\ IF inv[i].outcome.type = "HTTPStatusError"
               THEN /\ ReplyText(i)[2] = "API request failed: "
                    /\ HasAt(ReplyText(i), 3, IntStr(inv[i].outcome.status_code))
                    /\ HasAt(ReplyText(i), Len(ReplyText(i))
                                 - Len(inv[i].outcome.text) + 1,
                             inv[i].outcome.text)
               ELSE IF inv[i].outcome.type
                           \in {"ConnectError", "RemoteProtocolError",
                                "ReadTimeout"}
               THEN /\ ReplyText(i)[2] = "Failed to connect to API: "
                    /\ SubSeq(ReplyText(i), 3, Len(ReplyText(i)))
                           = inv[i].outcome.msg
               ELSE /\ ReplyText(i)[2] = "Unexpected error: "
                    /\ SubSeq(ReplyText(i), 3, Len(ReplyText(i)))
                           = inv[i].outcome.msg

\* a timeout reported as a transport failure
C7_Witness ==
    \E i \in Slots :
        /\ inv[i].pc = "returned"
        /\ inv[i].outcome.raised
        /\ inv[i].outcome.type = "ReadTimeout"
        /\ ReplyText(i) = <<"Error: ", "Failed to connect to API: ">>

(***************************************************************************)
(* Reading a rendered reply against the envelope it renders.               *)
(***************************************************************************)
Envelope(i) == inv[i].outcome.value

\* the reply renders the records of a data list
RenderedList(i) ==
    /\ Rendered(i)
    /\ HasKey(Envelope(i), "data")
    /\ Envelope(i).v["data"].t = "list"

\* the reply renders one record or the records of a list
RenderedRecords(i) ==
    /\ Rendered(i)
    /\ HasKey(Envelope(i), "data")
    /\ Envelope(i).v["data"].t \in {"list", "dict"}

DataRecords(i) ==
    IF Envelope(i).v["data"].t = "list" THEN Envelope(i).v["data"].v
    ELSE <<Envelope(i).v["data"]>>

ShowingStarts == {"\nShowing ", "\n\nShowing "}

\* the count printed by the summary line, as its digits
ShowingCount(text) ==
    RunAfter(text, NthPosition(text, ShowingStarts, 1), {" of "})

\* the id printed in the k-th block, as its fragments
IdShown(text, k) ==
    RunAfter(text, NthPosition(text, {"**\nID: ", ", ID: "}, k),
             {"\nArtist: ", "\nBirth: ", "\nStatus: ", "\nGallery Number: ",
              ")"})

\* the description printed in the k-th block, as its characters
DescriptionPrinted(text, k) ==
    RunAfter(text, NthPosition(text, {"\nDescription: "}, k), {"\n"})

(***************************************************************************)
(* C8: when the envelope has pagination, the count in the summary line     *)
(* "Showing {count} of {total} total results" is the number of record      *)
(* blocks rendered in the reply (violated: the four renderers print the    *)
(* length of the whole data list).                                         *)
(***************************************************************************)
C8_SummaryCountsRendered ==
    \A i \in Slots :
        (/\ RenderedRecords(i)
         /\ HasKey(Envelope(i), "pagination")
         /\ Positions(ReplyText(i), ShowingStarts) # {})
            => ShowingCount(ReplyText(i)) = IntStr(NumBlocks(ReplyText(i)))

(***************************************************************************)
(* C9: the number of record blocks rendered is at most the display cap of  *)
(* the kind (10, 20 for galleries, limit for mixed search), and a data     *)
(* list no longer than the cap is rendered whole and in order (violated:   *)
(* a negative limit, which C2's missing lower clamp lets through, makes    *)
(* the mixed search render all but the last records).                      *)
(***************************************************************************)
DisplayCap(i) ==
    CASE inv[i].name \in {"list_galleries", "get_gallery"} -> GalleryCap
      [] inv[i].name = "search_all" -> inv[i].limit
      [] OTHER -> ListCap

C9_BlocksWithinCap ==
    \A i \in Slots :
        RenderedList(i) =>
            /\ NumBlocks(ReplyText(i)) <= DisplayCap(i)
            /\ Len(DataRecords(i)) <= DisplayCap(i) =>
                  /\ NumBlocks(ReplyText(i)) = Len(DataRecords(i))
                  /\ \A k \in 1..Len(DataRecords(i)) :
                         IdShown(ReplyText(i), k)
                             = Format(GetDefault(DataRecords(i)[k], "id",
                                                 Str("Unknown")))

(***************************************************************************)
(* C10: for every record rendered by the artwork, agent and exhibition     *)
(* renderers the description shown is the record's description unchanged   *)
(* when it has at most 300 characters, and its first 300 characters        *)
(* followed by "..." when it is longer.                                    *)
(***************************************************************************)
DescriptionTools ==
    {"search_artworks", "get_artwork", "search_agents", "get_agent",
     "search_exhibitions", "get_exhibition"}

\* the characters of the description of a record, as the kind reads it
DescriptionOf(name, record) ==
    LET field(k) == IF HasKey(record, k) THEN record.v[k].v ELSE NoDescription
    IN  CASE name \in {"search_artworks", "get_artwork"} ->
                IF /\ HasKey(record, "short_description")
                   /\ record.v["short_description"].t = "text"
                   /\ record.v["short_description"].v # <<>>
                THEN record.v["short_description"].v
                ELSE field("description")
          [] name \in {"search_agents", "get_agent"} -> field("description")
          [] OTHER -> field("short_description")

C10_DescriptionTruncation ==
    \A i \in Slots :
        (RenderedRecords(i) /\ inv[i].name \in DescriptionTools) =>
            /\ Cardinality(Positions(ReplyText(i), {"\nDescription: "}))
                   = NumBlocks(ReplyText(i))
            /\ \A k \in 1..NumBlocks(ReplyText(i)) :
                   LET d == DescriptionOf(inv[i].name, DataRecords(i)[k])
                       shown == DescriptionPrinted(ReplyText(i), k)
                   IN  IF Len(d) > DescCap
                       THEN /\ Len(shown) = DescCap + 3
                            /\ SubSeq(shown, 1, DescCap) = SubSeq(d, 1, DescCap)
                            /\ SubSeq(shown, DescCap + 1, DescCap + 3)
                                   = <<".", ".", ".">>
                       ELSE shown = d

\* a description of more than 300 characters, shown cut with the marker
C10_Witness ==
    \E i \in Slots :
        /\ RenderedRecords(i)
        /\ inv[i].name = "get_agent"
        /\ Len(DescriptionOf(inv[i].name, DataRecords(i)[1])) > DescCap
        /\ Len(DescriptionPrinted(ReplyText(i), 1)) = DescCap + 3

(***************************************************************************)
(* C11: for every renderer kind an envelope whose data is absent or an     *)
(* empty list is rendered as the fixed "no results" message of the kind    *)
(* and nothing else: no record block, no pagination line, never an error.  *)
(***************************************************************************)
\* the message of the tool for absent data and the one for an empty list
NoDataMessage(name) ==
    CASE name \in {"search_artworks", "get_artwork"} -> "No artwork data found."
      [] name \in {"search_agents", "get_agent"} -> "No agent data found."
      [] name \in {"search_exhibitions", "get_exhibition"} ->
            "No exhibition data found."
      [] name \in {"list_galleries", "get_gallery"} -> "No gallery data found."
      [] name = "search_all" -> "No results found."

NoItemsMessage(name) ==
    CASE name \in {"search_artworks", "get_artwork"} -> "No artworks found."
      [] name \in {"search_agents", "get_agent"} -> "No agents found."
      [] name \in {"search_exhibitions", "get_exhibition"} ->
            "No exhibitions found."
      [] name \in {"list_galleries", "get_gallery"} -> "No galleries found."
      [] name = "search_all" -> "No results found."

\* a decoded dict whose data is absent, or an empty list
EmptyEnvelope(i) ==
    /\ inv[i].pc \in {"returned", "failed"}
    /\ inv[i].client = "closed"
    /\ ~inv[i].outcome.raised
    /\ inv[i].outcome.value.t = "dict"
    /\ \/ ~HasKey(Envelope(i), "data")
       \/ Envelope(i).v["data"] = List(<<>>)

C11_EmptyEnvelopeMessage ==
    \A i \in Slots :
        EmptyEnvelope(i) =>
            /\ inv[i].pc = "returned"
            /\ ReplyText(i) =
                   <<IF HasKey(Envelope(i), "data")
                     THEN NoItemsMessage(inv[i].name)
                     ELSE NoDataMessage(inv[i].name)>>
            /\ NumBlocks(ReplyText(i)) = 0
            /\ Positions(ReplyText(i), ShowingStarts) = {}

\* an empty list with pagination, rendered without a pagination line
C11_Witness ==
    \E i \in Slots :
        /\ EmptyEnvelope(i)
        /\ inv[i].name = "search_agents"
        /\ HasKey(Envelope(i), "data")
        /\ HasKey(Envelope(i), "pagination")
        /\ ReplyText(i) = <<"No agents found.">>

(***************************************************************************)
(* C12: each of the nine tools sends its request to the endpoint of the    *)
(* catalog table and renders with the renderer of its entity kind; the     *)
(* search term is sent as q, and an id is put into the path and never sent *)
(* as a query parameter.                                                   *)
(***************************************************************************)
IdKey(name) ==
    CASE name = "get_artwork" -> "artwork_id"
      [] name = "get_agent" -> "agent_id"
      [] name = "get_exhibition" -> "exhibition_id"
      [] name = "get_gallery" -> "gallery_id"

ByIdTools == {"get_artwork", "get_agent", "get_exhibition", "get_gallery"}
SearchTools ==
    {"search_artworks", "search_agents", "search_exhibitions", "search_all"}

\* the endpoint of the catalog table, id the digits of the id
TableEndpoint(name, id) ==
    CASE name = "search_artworks" -> <<"artworks/search">>
      [] name = "get_artwork" -> <<"artworks/">> \o id
      [] name = "search_agents" -> <<"agents/search">>
      [] name = "get_agent" -> <<"agents/">> \o id
      [] name = "search_exhibitions" -> <<"exhibitions/search">>
      [] name = "get_exhibition" -> <<"exhibitions/">> \o id
      [] name = "list_galleries" -> <<"galleries">>
      [] name = "get_gallery" -> <<"galleries/">> \o id
      [] name = "search_all" -> <<"search">>

\* the label only the blocks of the kind of the tool have
KindLabel(name) ==
    CASE name \in {"search_artworks", "get_artwork"} -> "\nArtist: "
      [] name \in {"search_agents", "get_agent"} -> "\nBirth: "
      [] name \in {"search_exhibitions", "get_exhibition"} -> "\nDates: "
      [] name \in {"list_galleries", "get_gallery"} -> "\nGallery Number: "
      [] name = "search_all" -> "** (Type: "

KindLabels ==
    {"\nArtist: ", "\nBirth: ", "\nDates: ", "\nGallery Number: ", "** (Type: "}

C12_CatalogTable ==
    \A i \in Slots :
        (inv[i].name \in CatalogTools /\ Len(inv[i].requests) = 1) =>
            LET name == inv[i].name
                arguments == inv[i].arguments
                request == inv[i].requests[1]
            IN  /\ (name \in ByIdTools /\ HasKey(arguments, IdKey(name))) =>
                       request.url = <<BASE_URL, "/">>
                           \o TableEndpoint(name, IntStr(arguments.v[IdKey(name)].v))
                /\ name \notin ByIdTools =>
                       request.url = <<BASE_URL, "/">> \o TableEndpoint(name, <<>>)
                /\ ParamKeys(request) \subseteq {"q", "limit", "page", "fields"}
                /\ (name \in SearchTools /\ HasKey(arguments, "query")) =>
                       /\ "q" \in ParamKeys(request)
                       /\ request.params.v["q"] = arguments.v["query"]
                /\ name \notin SearchTools => "q" \notin ParamKeys(request)
                /\ (RenderedRecords(i) /\ NumBlocks(ReplyText(i)) > 0) =>
                       /\ Cardinality(Positions(ReplyText(i), {KindLabel(name)}))
                              = NumBlocks(ReplyText(i))
                       /\ Positions(ReplyText(i), KindLabels \ {KindLabel(name)})
                              = {}
                /\ (EmptyEnvelope(i) /\ ~HasKey(Envelope(i), "data")) =>
                       ReplyText(i) = <<NoDataMessage(name)>>

\* get_exhibition with an id: the id is in the path, the reply has the
\* exhibition block
C12_Witness ==
    \E i \in Slots :
        /\ RenderedRecords(i)
        /\ inv[i].name = "get_exhibition"
        /\ HasKey(inv[i].arguments, "exhibition_id")
        /\ inv[i].requests[1].url
               = <<BASE_URL, "/", "exhibitions/">>
                     \o IntStr(inv[i].arguments.v["exhibition_id"].v)
        /\ inv[i].requests[1].params = None
        /\ Cardinality(Positions(ReplyText(i), {"\nDates: "})) = 1

(***************************************************************************)
(* C13: the reply of an invocation is a function of its own tool name, its *)
(* own arguments and the response to its own request: under every          *)
(* interleaving each invocation returns the reply it returns when it runs  *)
(* alone, and a step of one invocation changes nothing of another.         *)
(***************************************************************************)
\* what call_tool returns for the name, the arguments and the outcome of
\* the request of a slot, run from its start to its end with no other
\* invocation
AloneReply(slot) ==
    LET p == PrepareCall(slot.name, slot.arguments)
        data == MakeApiRequestResult(slot.outcome)
    IN  IF p.raised THEN CallToolResult(p)
        ELSE IF p.value.kind = "return" THEN CallToolResult(Ok(p.value.text))
        ELSE IF data.raised THEN CallToolResult(data)
        ELSE CallToolResult(RenderFor(slot.name, data.value, p.value.limit))

C13_IndependentInvocations ==
    [][\A i \in Slots :
           inv'[i] # inv[i] =>
               /\ \A j \in Slots \ {i} : inv'[j] = inv[j]
               /\ inv'[i].pc # "failed"
               /\ inv'[i].pc = "returned" =>
                      inv'[i].reply = AloneReply(inv'[i]).value]_vars

\* two invocations of search_all in flight together, with different limits,
\* answered with the same envelope and with different replies
C13_Witness ==
    \E i, j \in Slots :
        /\ i # j
        /\ inv[i].pc = "returned" /\ inv[j].pc = "returned"
        /\ inv[i].name = "search_all" /\ inv[j].name = "search_all"
        /\ inv[i].limit = 1 /\ inv[j].limit = 2
        /\ ~inv[i].outcome.raised /\ ~inv[j].outcome.raised
        /\ inv[i].outcome = inv[j].outcome
        /\ NumBlocks(ReplyText(i)) = 1
        /\ NumBlocks(ReplyText(j)) = 2

(***************************************************************************)
(* C14: every invocation ends with a reply.  It is suspended only in its   *)
(* one request, the request ends with a response, a failure or the         *)
(* timeout, and its client is closed on each of these paths when the reply *)
(* is returned.                                                            *)
(***************************************************************************)
C14_RepliesAndReleases ==
    \A i \in Slots :
        /\ [](inv[i].pc \in {"idle", "awaiting", "returned"})
        /\ [](inv[i].pc = "awaiting" =>
                  /\ Len(inv[i].requests) = 1
                  /\ inv[i].requests[1].timeout = DEFAULT_TIMEOUT
                  /\ inv[i].client = "open")
        /\ [](inv[i].pc = "returned" => inv[i].client \in {"none", "closed"})
        /\ (inv[i].pc = "awaiting") ~> (inv[i].pc = "returned")

\* an invocation whose request reached the timeout has returned its reply
\* with its client closed, while another invocation is still suspended
C14_Witness ==
    \E i, j \in Slots :
        /\ inv[i].pc = "returned"
        /\ inv[i].outcome.raised
        /\ inv[i].outcome.type = "ReadTimeout"
        /\ inv[i].client = "closed"
        /\ FirstFragment(ReplyText(i)) = "Error: "
        /\ inv[j].pc = "awaiting"
====
